---------------------------- MODULE Spec2Model ----------------------------
(***************************************************************************)
(* GConvGRU (torch_geometric_temporal/nn/conv/gconv_gru.py): the Chebyshev *)
(* graph convolutional GRU cell, its construction and its forward pass.    *)
(*                                                                         *)
(* Tensors are 2-D matrices of float values.  A float is modelled on a     *)
(* small grid with the structure of an IEEE format: finitely many finite   *)
(* values (multiples of 1/One up to MaxFinite/One), two infinities and a   *)
(* NaN, with round-to-nearest arithmetic that overflows to an infinity.    *)
(* forward is called with edge_weight left at its default, None: the graph *)
(* is unweighted and edge_index alone is the topology.                     *)
(***************************************************************************)
EXTENDS Integers, Sequences, FiniteSets

VARIABLES in_channels, out_channels, K, number_of_nodes,
          conv_x_z, conv_h_z, conv_x_r, conv_h_r, conv_x_h, conv_h_h,
          heap, call, held, origin, memo, steps

cell == <<in_channels, out_channels, K, number_of_nodes,
          conv_x_z, conv_h_z, conv_x_r, conv_h_r, conv_x_h, conv_h_h>>
vars == <<in_channels, out_channels, K, number_of_nodes,
          conv_x_z, conv_h_z, conv_x_r, conv_h_r, conv_x_h, conv_h_h,
          heap, call, held, origin, memo, steps>>

(***************************************************************************)
(* Bounds of the exploration.                                              *)
(***************************************************************************)
MaxNodes == 2
MaxChannels == 2
MaxK == 2
MaxCalls == 3
MaxFinite == 16
MaxRows == MaxNodes + 1

(***************************************************************************)
(* The float grid.  One is the grid's representation of 1.0.               *)
(***************************************************************************)
One == 4
Inf == MaxFinite + 1
NaN == MaxFinite + 2
Float == (-Inf..Inf) \cup {NaN}

IsNaN(a) == a = NaN
IsInf(a) == a = Inf \/ a = -Inf
IsFinite(a) == ~IsNaN(a) /\ ~IsInf(a)
Abs(a) == IF a < 0 THEN -a ELSE a
Sgn(a) == IF a < 0 THEN -1 ELSE IF a > 0 THEN 1 ELSE 0

\* a finite exact result brought back to the grid: overflow gives an infinity
Overflow(n) == IF n > MaxFinite THEN Inf ELSE IF n < -MaxFinite THEN -Inf ELSE n

\* elementwise + of two floats
fadd(a, b) ==
    IF IsNaN(a) \/ IsNaN(b) THEN NaN
    ELSE IF IsInf(a) /\ IsInf(b) THEN (IF a = b THEN a ELSE NaN)
    ELSE IF IsInf(a) THEN a
    ELSE IF IsInf(b) THEN b
    ELSE Overflow(a + b)

\* elementwise * of two floats, rounded to the nearest grid value
fmul(a, b) ==
    IF IsNaN(a) \/ IsNaN(b) THEN NaN
    ELSE IF IsInf(a) \/ IsInf(b)
         THEN (IF a = 0 \/ b = 0 THEN NaN ELSE Sgn(a) * Sgn(b) * Inf)
    ELSE Overflow(Sgn(a) * Sgn(b) * ((2 * Abs(a) * Abs(b) + One) \div (2 * One)))

\* torch.tanh on the grid: One * tanh(n / One) rounded to the nearest grid
\* value, for a finite n >= 0; it reaches exactly 1.0 from 1.5 on
TanhGrid(n) ==
    IF n <= 2 THEN n ELSE IF n <= 5 THEN 3 ELSE One

\* torch.sigmoid on the grid: One * sigmoid(n / One) rounded to the nearest
\* grid value, for a finite n >= 0; it reaches exactly 1.0 from 2.0 on
SigmoidGrid(n) ==
    IF n <= 2 THEN 2 ELSE IF n <= 7 THEN 3 ELSE One

tanh(a) ==
    IF IsNaN(a) THEN NaN
    ELSE IF IsInf(a) THEN Sgn(a) * One
    ELSE Sgn(a) * TanhGrid(Abs(a))

sigmoid(a) ==
    IF IsNaN(a) THEN NaN
    ELSE IF a = Inf THEN One
    ELSE IF a = -Inf THEN 0
    ELSE IF a >= 0 THEN SigmoidGrid(a) ELSE One - SigmoidGrid(-a)

(***************************************************************************)
(* Tensors, Python's None and a raised exception.  A tensor holds its rows *)
(* (each a sequence of floats); an exception records whose code raised it  *)
(* (by) and at which step of forward (at).                                 *)
(***************************************************************************)
None == [kind |-> "None"]
Unset == [kind |-> "Unset"]
Tensor(v) == [kind |-> "Tensor", val |-> v]
Raise(who, where) == [kind |-> "Raise", by |-> who, at |-> where]
IsTensor(T) == T.kind = "Tensor"
IsRaise(T) == T.kind = "Raise"
Rows(T) == Len(T.val)
Cols(T) == Len(T.val[1])
Shape(T) == <<Rows(T), Cols(T)>>
Max(a, b) == IF a >= b THEN a ELSE b

\* torch.zeros(n, c)
zeros(n, c) == Tensor([i \in 1..n |-> [j \in 1..c |-> 0]])

\* torch broadcasting of two sizes of one dimension
Broadcastable(a, b) == a = b \/ a = 1 \/ b = 1
Pick(i, n) == IF n = 1 THEN 1 ELSE i

\* an elementwise binary operation of two tensors, with broadcasting; sizes
\* that do not broadcast raise in the cell's own statement `where`
Elementwise(op(_, _), A, B, where) ==
    IF ~(Broadcastable(Rows(A), Rows(B)) /\ Broadcastable(Cols(A), Cols(B)))
    THEN Raise("GConvGRU", where)
    ELSE Tensor([i \in 1..Max(Rows(A), Rows(B)) |->
                    [j \in 1..Max(Cols(A), Cols(B)) |->
                        op(A.val[Pick(i, Rows(A))][Pick(j, Cols(A))],
                           B.val[Pick(i, Rows(B))][Pick(j, Cols(B))])]])

\* an elementwise unary function of a tensor
Map(f(_), A) == Tensor([i \in 1..Rows(A) |-> [j \in 1..Cols(A) |-> f(A.val[i][j])]])

(***************************************************************************)
(* ChebConv, the Chebyshev spectral graph convolution the cell is built    *)
(* from (torch_geometric).  An operator object holds weight[k][f][c] for   *)
(* each order k, input feature f and output feature c, and bias[c].  With  *)
(* the default symmetric normalisation and lambda_max = 2 the scaled       *)
(* Laplacian is -D^(-1/2) A D^(-1/2); the topologies explored are          *)
(* matchings (every node has at most one neighbour), for which it is -A.   *)
(***************************************************************************)
NodeRange(edge_index) ==
    IF edge_index = {} THEN 0
    ELSE CHOOSE n \in 1..MaxRows + 1 :
            /\ \E e \in edge_index : e[1] = n \/ e[2] = n
            /\ \A e \in edge_index : e[1] <= n /\ e[2] <= n

\* L_hat applied to the rows T of a matrix
Lhat(edge_index, T) ==
    [i \in 1..Len(T) |->
        [f \in 1..Len(T[1]) |->
            LET src == {j \in 1..Len(T) : <<j, i>> \in edge_index}
            IN  IF src = {} THEN 0 ELSE fmul(-One, T[CHOOSE j \in src : TRUE][f])]]

\* the Chebyshev recurrence: Tx_0 = x, Tx_1 = L_hat x,
\* Tx_k = 2 L_hat Tx_(k-1) - Tx_(k-2); Cheb(.., k) is Tx_(k-1)
RECURSIVE Cheb(_, _, _)
Cheb(edge_index, x, k) ==
    IF k = 1 THEN x
    ELSE IF k = 2 THEN Lhat(edge_index, x)
    ELSE LET A == Lhat(edge_index, Cheb(edge_index, x, k - 1))
             B == Cheb(edge_index, x, k - 2)
         IN  [i \in 1..Len(x) |-> [f \in 1..Len(x[1]) |->
                 fadd(fmul(2 * One, A[i][f]), fmul(-One, B[i][f]))]]

\* row . W[.][c], accumulated over the first f input features
RECURSIVE Dot(_, _, _, _)
Dot(row, W, c, f) ==
    IF f = 0 THEN 0 ELSE fadd(Dot(row, W, c, f - 1), fmul(row[f], W[f][c]))

\* sum over the orders 1..k of Tx_(k-1) W_k, at row i and output feature c
RECURSIVE Filter(_, _, _, _, _)
Filter(op, Tx, i, c, k) ==
    IF k = 0 THEN 0
    ELSE fadd(Filter(op, Tx, i, c, k - 1),
              Dot(Tx[k][i], op.weight[k], c, op.in_channels))

\* operator(features, edge_index): it raises when the feature width is not the
\* operator's in_channels or when edge_index names a node the features lack
ChebConv(name, op, x, edge_index) ==
    IF Cols(x) # op.in_channels \/ Rows(x) < NodeRange(edge_index)
    THEN Raise("ChebConv", name)
    ELSE LET Tx == [k \in 1..op.K |-> Cheb(edge_index, x.val, k)]
         IN  Tensor([i \in 1..Rows(x) |-> [c \in 1..op.out_channels |->
                        fadd(Filter(op, Tx, i, c, op.K), op.bias[c])]])

\* ChebConv(in_channels, out_channels, K): glorot weights w, zero bias
NewChebConv(inW, outW, k, w) ==
    [in_channels |-> inW, out_channels |-> outW, K |-> k,
     weight |-> [kk \in 1..k |-> [f \in 1..inW |-> [c \in 1..outW |-> w]]],
     bias |-> [c \in 1..outW |-> 0]]

(***************************************************************************)
(* Construction.  `self` is the cell being built: its four settings, the   *)
(* six attributes naming operator objects (0: not yet set) and the objects *)
(* created so far.  g is the glorot draw, one weight per created operator. *)
(***************************************************************************)
Create(self, attr, op) ==
    [self EXCEPT !.heap = Append(@, op), ![attr] = Len(self.heap) + 1]

_create_update_gate_parameters_and_layers(self, g) ==
    LET s1 == Create(self, "conv_x_z",
                     NewChebConv(self.in_channels, self.out_channels, self.K, g[1]))
    IN  Create(s1, "conv_h_z",
               NewChebConv(self.out_channels, self.out_channels, self.K, g[2]))

\* a variant in which conv_h_r shares the update gate's operator conv_h_z
_create_reset_gate_sharing(self, g) ==
    LET s1 == Create(self, "conv_x_r",
                     NewChebConv(self.in_channels, self.out_channels, self.K, g[3]))
    IN  [s1 EXCEPT !.conv_h_r = self.conv_h_z]

_create_reset_gate_parameters_and_layers(self, g) ==
    LET s1 == Create(self, "conv_x_r",
                     NewChebConv(self.in_channels, self.out_channels, self.K, g[3]))
    IN  Create(s1, "conv_h_r",
               NewChebConv(self.out_channels, self.out_channels, self.K, g[4]))

_create_candidate_state_parameters_and_layers(self, g) ==
    LET s1 == Create(self, "conv_x_h",
                     NewChebConv(self.in_channels, self.out_channels, self.K, g[5]))
    IN  Create(s1, "conv_h_h",
               NewChebConv(self.out_channels, self.out_channels, self.K, g[6]))

_create_parameters_and_layers(self, g) ==
    _create_candidate_state_parameters_and_layers(
        _create_reset_gate_parameters_and_layers(
            _create_update_gate_parameters_and_layers(self, g), g), g)

__init__(inC, outC, k, n, g) ==
    _create_parameters_and_layers(
        [in_channels |-> inC, out_channels |-> outC, K |-> k, number_of_nodes |-> n,
         conv_x_z |-> 0, conv_h_z |-> 0, conv_x_r |-> 0, conv_h_r |-> 0,
         conv_x_h |-> 0, conv_h_h |-> 0, heap |-> <<>>], g)

(***************************************************************************)
(* The forward pass.  An exception raised by a step ends the call: the     *)
(* steps after it do not run and the exception is the call's outcome.      *)
(***************************************************************************)
\* a variant that keeps using the state returned last when H is omitted
_set_hidden_state_kept(X, H) ==
    IF H = None
    THEN (IF held = None THEN zeros(number_of_nodes, out_channels) ELSE held)
    ELSE H

\* a variant whose default state is all ones
_set_hidden_state_ones(X, H) ==
    IF H = None
    THEN Tensor([i \in 1..number_of_nodes |-> [j \in 1..out_channels |-> One]])
    ELSE H

\* a variant that sizes the default state by X's rows
_set_hidden_state_like_X(X, H) ==
    IF H = None THEN zeros(Rows(X), out_channels) ELSE H

_set_hidden_state(X, H) ==
    IF H = None THEN zeros(number_of_nodes, out_channels) ELSE H

_calculate_update_gate(X, edge_index, H) ==
    LET Z1 == ChebConv("conv_x_z", heap[conv_x_z], X, edge_index)
        Z2 == ChebConv("conv_h_z", heap[conv_h_z], H, edge_index)
        Z3 == Elementwise(fadd, Z1, Z2, "Z = Z + conv_h_z(H)")
    IN  IF IsRaise(Z1) THEN Z1
        ELSE IF IsRaise(Z2) THEN Z2
        ELSE IF IsRaise(Z3) THEN Z3
        ELSE Map(sigmoid, Z3)

\* a variant that leaves the sigmoid out
_calculate_reset_gate_linear(X, edge_index, H) ==
    LET R1 == ChebConv("conv_x_r", heap[conv_x_r], X, edge_index)
        R2 == ChebConv("conv_h_r", heap[conv_h_r], H, edge_index)
        R3 == Elementwise(fadd, R1, R2, "R = R + conv_h_r(H)")
    IN  IF IsRaise(R1) THEN R1
        ELSE IF IsRaise(R2) THEN R2
        ELSE R3

_calculate_reset_gate(X, edge_index, H) ==
    LET R1 == ChebConv("conv_x_r", heap[conv_x_r], X, edge_index)
        R2 == ChebConv("conv_h_r", heap[conv_h_r], H, edge_index)
        R3 == Elementwise(fadd, R1, R2, "R = R + conv_h_r(H)")
    IN  IF IsRaise(R1) THEN R1
        ELSE IF IsRaise(R2) THEN R2
        ELSE IF IsRaise(R3) THEN R3
        ELSE Map(sigmoid, R3)

_calculate_candidate_state(X, edge_index, H, R) ==
    LET H1 == ChebConv("conv_x_h", heap[conv_x_h], X, edge_index)
        HR == Elementwise(fmul, H, R, "H*R")
        H2 == ChebConv("conv_h_h", heap[conv_h_h], HR, edge_index)
        H3 == Elementwise(fadd, H1, H2, "H_t = H_t + conv_h_h(H*R)")
    IN  IF IsRaise(H1) THEN H1
        ELSE IF IsRaise(HR) THEN HR
        ELSE IF IsRaise(H2) THEN H2
        ELSE IF IsRaise(H3) THEN H3
        ELSE Map(tanh, H3)

\* a variant that adds where the code multiplies
_calculate_hidden_state_plus(O, C) ==
    LET T == Map(tanh, C)
    IN  Elementwise(fadd, O, T, "H = O + tanh(C)")

\* a variant that multiplies matrices, O^T tanh(C), instead of elements
_calculate_hidden_state_matmul(O, C) ==
    LET T == Map(tanh, C)
    IN  IF Rows(O) # Rows(T) THEN Raise("GConvGRU", "H = O * tanh(C)")
        ELSE Tensor([a \in 1..Cols(O) |-> [b \in 1..Cols(T) |->
                        Dot([i \in 1..Rows(O) |-> O.val[i][a]], T.val, b, Rows(O))]])

_calculate_hidden_state(O, C) ==
    LET T == Map(tanh, C)
    IN  Elementwise(fmul, O, T, "H = O * tanh(C)")

\* a variant whose last step is the conventional GRU combination
\* Z * H + (1 - Z) * H_t
forward_gru(X, edge_index, H) ==
    LET H0  == _set_hidden_state(X, H)
        Z   == _calculate_update_gate(X, edge_index, H0)
        R   == _calculate_reset_gate(X, edge_index, H0)
        H_t == _calculate_candidate_state(X, edge_index, H0, R)
        NotZ == Map(LAMBDA z : fadd(One, fmul(-One, z)), Z)
        ZH  == Elementwise(fmul, Z, H0, "Z * H")
        NC  == Elementwise(fmul, NotZ, H_t, "(1 - Z) * H_t")
        Hn  == Elementwise(fadd, ZH, NC, "Z * H + (1 - Z) * H_t")
    IN  [kind |-> "Frame", X |-> X, edge_index |-> edge_index, H |-> H, H0 |-> H0,
         Z   |-> Z,
         R   |-> IF IsRaise(Z) THEN Unset ELSE R,
         H_t |-> IF IsRaise(Z) \/ IsRaise(R) THEN Unset ELSE H_t,
         out |-> IF IsRaise(Z) THEN Z
                 ELSE IF IsRaise(R) THEN R
                 ELSE IF IsRaise(H_t) THEN H_t
                 ELSE Hn]

\* a variant that recovers from a failed step by returning the state it had
forward_recovering(X, edge_index, H) ==
    LET H0  == _set_hidden_state(X, H)
        Z   == _calculate_update_gate(X, edge_index, H0)
        R   == _calculate_reset_gate(X, edge_index, H0)
        H_t == _calculate_candidate_state(X, edge_index, H0, R)
        Hn  == _calculate_hidden_state(H0, H_t)
    IN  [kind |-> "Frame", X |-> X, edge_index |-> edge_index, H |-> H, H0 |-> H0,
         Z   |-> Z,
         R   |-> IF IsRaise(Z) THEN Unset ELSE R,
         H_t |-> IF IsRaise(Z) \/ IsRaise(R) THEN Unset ELSE H_t,
         out |-> IF IsRaise(Z) \/ IsRaise(R) \/ IsRaise(H_t) THEN H0 ELSE Hn]

\* the call's frame: its arguments, its locals and what it returns or raises
forward(X, edge_index, H) ==
    LET H0  == _set_hidden_state(X, H)
        Z   == _calculate_update_gate(X, edge_index, H0)
        R   == _calculate_reset_gate(X, edge_index, H0)
        H_t == _calculate_candidate_state(X, edge_index, H0, R)
        Hn  == _calculate_hidden_state(H0, H_t)
    IN  [kind |-> "Frame", X |-> X, edge_index |-> edge_index, H |-> H, H0 |-> H0,
         Z   |-> Z,
         R   |-> IF IsRaise(Z) THEN Unset ELSE R,
         H_t |-> IF IsRaise(Z) \/ IsRaise(R) THEN Unset ELSE H_t,
         out |-> IF IsRaise(Z) THEN Z
                 ELSE IF IsRaise(R) THEN R
                 ELSE IF IsRaise(H_t) THEN H_t
                 ELSE Hn]

(***************************************************************************)
(* The inputs explored.                                                    *)
(***************************************************************************)
\* an r x c matrix holding a where row + column is even and b elsewhere
Fill(r, c, a, b) ==
    Tensor([i \in 1..r |-> [j \in 1..c |-> IF (i + j) % 2 = 0 THEN a ELSE b]])

\* shapes tried for a matrix meant to be n x w: n x w itself, a single row,
\* one row more, and another width
ShapesNear(n, w) == {<<n, w>>, <<1, w>>, <<n + 1, w>>, <<n, (w % MaxChannels) + 1>>}

\* node features X: zeros, positive readings, and a missing reading (NaN)
Inputs ==
    {Fill(s[1], s[2], v[1], v[2]) :
        s \in ShapesNear(number_of_nodes, in_channels),
        v \in {<<0, 0>>, <<One, 2 * One>>, <<NaN, One>>}}

\* hidden states a caller supplies
Hiddens ==
    {Fill(s[1], s[2], v[1], v[2]) :
        s \in ShapesNear(number_of_nodes, out_channels),
        v \in {<<MaxFinite, -One>>}}

\* edge_index: no edge, or one undirected edge between neighbouring nodes,
\* within the cell's nodes or reaching one node past them
Topologies ==
    {{}} \cup {{<<i, i + 1>>, <<i + 1, i>>} :
                  i \in {number_of_nodes - 1, number_of_nodes} \ {0}}

\* the inputs of a call that continues a sequence: features of the cell's
\* width for the nodes of the hidden state held
InputsFor(H) == {X \in Inputs : Rows(X) = Rows(H) /\ Cols(X) = in_channels}

\* glorot draws of the six operators' weights, in the order of creation
GlorotDraws ==
    {<<One, One, -One, One, One, -One>>}

\* parameters after training: <<weight, bias>> of the six operators
Trained ==
    {<<<<One, One>>, <<One, 0>>, <<-One, 2>>, <<One, One>>, <<One, 2>>, <<-One, One>>>>,
     <<<<2, -One>>, <<0, MaxFinite>>, <<One, -2>>, <<-One, 0>>, <<0, One>>, <<2, 1>>>>}

Idle == [kind |-> "Idle"]

(***************************************************************************)
(* The state after construction: one cell, no call made yet.               *)
(***************************************************************************)
Init ==
    \E inC \in 1..MaxChannels, outC \in 1..MaxChannels, k \in 1..MaxK,
       n \in 1..MaxNodes, g \in GlorotDraws :
        LET self == __init__(inC, outC, k, n, g)
        IN  /\ in_channels = self.in_channels
            /\ out_channels = self.out_channels
            /\ K = self.K
            /\ number_of_nodes = self.number_of_nodes
            /\ conv_x_z = self.conv_x_z
            /\ conv_h_z = self.conv_h_z
            /\ conv_x_r = self.conv_x_r
            /\ conv_h_r = self.conv_h_r
            /\ conv_x_h = self.conv_x_h
            /\ conv_h_h = self.conv_h_h
            /\ heap = self.heap
            /\ call = Idle
            /\ held = None
            /\ origin = "none"
            /\ memo = None
            /\ steps = 0

(***************************************************************************)
(* The caller starts a sequence: forward(X, edge_index, H = H) with H      *)
(* omitted (None) or supplied.  The action is the whole call.  An observer  *)
(* that has noted a call (memo) marks that a later call has begun.         *)
(***************************************************************************)
Later(m) == IF m = None THEN m ELSE [m EXCEPT !.later = TRUE]

ForwardFirst(XS, HS) ==
    /\ call = Idle
    /\ held = None
    /\ \E X \in XS, edge_index \in Topologies, H \in HS :
            call' = forward(X, edge_index, H)
    /\ memo' = Later(memo)
    /\ UNCHANGED <<cell, heap, held, origin, steps>>

\* the caller continues a sequence (of at most MaxCalls calls): the state
\* returned last is the next H
ForwardNext(XS) ==
    /\ call = Idle
    /\ held # None
    /\ steps < MaxCalls
    /\ \E X \in XS \cap InputsFor(held), edge_index \in Topologies :
            call' = forward(X, edge_index, held)
    /\ memo' = Later(memo)
    /\ UNCHANGED <<cell, heap, held, origin, steps>>

\* the call ends: the caller keeps a returned hidden state; an exception
\* leaves it with what it had; the call's matrices are discarded
Return ==
    /\ call # Idle
    /\ held' = IF IsTensor(call.out) THEN call.out ELSE held
    /\ origin' = IF IsTensor(call.out) /\ held = None
                 THEN (IF call.H = None THEN "omitted" ELSE "supplied")
                 ELSE origin
    /\ call' = Idle
    /\ steps' = IF IsTensor(call.out) THEN steps + 1 ELSE steps
    /\ UNCHANGED <<cell, heap, memo>>

\* the caller drops the hidden state it holds: the next call starts a sequence
Reset ==
    /\ call = Idle
    /\ held # None
    /\ held' = None
    /\ origin' = "none"
    /\ steps' = 0
    /\ UNCHANGED <<cell, heap, call, memo>>

\* the external optimiser writes the six operators' parameters, between
\* sequences of calls
Train ==
    /\ call = Idle
    /\ held = None
    /\ \E p \in Trained :
        LET param(id) ==
                IF id = conv_x_z THEN p[1] ELSE IF id = conv_h_z THEN p[2]
                ELSE IF id = conv_x_r THEN p[3] ELSE IF id = conv_h_r THEN p[4]
                ELSE IF id = conv_x_h THEN p[5] ELSE p[6]
        IN  heap' = [id \in 1..Len(heap) |->
                        [heap[id] EXCEPT
                            !.weight = [kk \in 1..heap[id].K |->
                                          [f \in 1..heap[id].in_channels |->
                                             [c \in 1..heap[id].out_channels |-> param(id)[1]]]],
                            !.bias = [c \in 1..heap[id].out_channels |-> param(id)[2]]]]
    /\ heap' # heap
    /\ UNCHANGED <<cell, call, held, origin, memo, steps>>

\* the caller drops the state it holds and starts a new sequence at once
ForwardAnew(XS, HS) ==
    /\ call = Idle
    /\ held # None
    /\ \E X \in XS, edge_index \in Topologies, H \in HS :
            call' = forward(X, edge_index, H)
    /\ held' = None
    /\ origin' = "none"
    /\ steps' = 0
    /\ memo' = Later(memo)
    /\ UNCHANGED <<cell, heap>>

\* the call an observer watches for: positive readings on the graph with no
\* edge, H omitted or supplied
Probe(frame) ==
    /\ frame.edge_index = {}
    /\ frame.X = Fill(number_of_nodes, in_channels, One, 2 * One)

\* the observer notes one finished probe call (its arguments, the parameters
\* it ran with and its outcome) to compare later calls with
Remember ==
    /\ call # Idle
    /\ memo = None
    /\ Probe(call)
    /\ memo' = [X |-> call.X, edge_index |-> call.edge_index, H |-> call.H,
                heap |-> heap, out |-> call.out, later |-> FALSE]
    /\ UNCHANGED <<cell, heap, call, held, origin, steps>>

Next ==
    \/ ForwardFirst(Inputs, Hiddens \cup {None})
    \/ ForwardNext(Inputs)
    \/ Return
    \/ Reset
    \/ Train

Spec == Init /\ [][Next]_vars

\* sequences of one call each, on well-shaped inputs, with the observer
WellShaped(S, w) == {T \in S : Shape(T) = <<number_of_nodes, w>>}

NextObserved ==
    \/ ForwardFirst(WellShaped(Inputs, in_channels),
                    WellShaped(Hiddens, out_channels) \cup {None})
    \/ ForwardAnew(WellShaped(Inputs, in_channels),
                   WellShaped(Hiddens, out_channels) \cup {None})
    \/ Return
    \/ Reset
    \/ Train
    \/ Remember

SpecObserved == Init /\ [][NextObserved]_vars

(***************************************************************************)
(* Properties.                                                             *)
(***************************************************************************)
Done == call # Idle
Completed == Done /\ IsTensor(call.out)
AllZero(T) == \A i \in 1..Rows(T), j \in 1..Cols(T) : T.val[i][j] = 0
NoNaN(T) == \A i \in 1..Rows(T), j \in 1..Cols(T) : ~IsNaN(T.val[i][j])
At(T, i, j) == T.val[Pick(i, Rows(T))][Pick(j, Cols(T))]

\* the formula of C1, written out over the four operators it names; it has a
\* value when each of its parts has one
C1_Formula(X, edge_index, H0) ==
    LET xr  == ChebConv("conv_x_r", heap[conv_x_r], X, edge_index)
        hr  == ChebConv("conv_h_r", heap[conv_h_r], H0, edge_index)
        sr  == Elementwise(fadd, xr, hr, "+")
        R   == Map(sigmoid, sr)
        HR  == Elementwise(fmul, H0, R, "*")
        xh  == ChebConv("conv_x_h", heap[conv_x_h], X, edge_index)
        hh  == ChebConv("conv_h_h", heap[conv_h_h], HR, edge_index)
        sh  == Elementwise(fadd, xh, hh, "+")
        H_t == Map(tanh, sh)
        T   == Map(tanh, H_t)
    IN  IF /\ IsTensor(xr) /\ IsTensor(hr) /\ IsTensor(sr) /\ IsTensor(R)
           /\ IsTensor(HR) /\ IsTensor(xh) /\ IsTensor(hh) /\ IsTensor(sh)
           /\ IsTensor(H_t) /\ IsTensor(T)
        THEN Elementwise(fmul, H0, T, "*")
        ELSE Unset

\* C1: a call that returns, returns exactly H0 (.) tanh(H_t) with H0 the given H
\* or the zero matrix, R = sigmoid(conv_x_r(X) + conv_h_r(H0)) and
\* H_t = tanh(conv_x_h(X) + conv_h_h(H0 (.) R)): a value in which the update
\* gate's operators conv_x_z and conv_h_z do not occur.
C1_ReturnsHTimesTanhCandidate ==
    Completed =>
        /\ call.H0 = (IF call.H = None THEN zeros(number_of_nodes, out_channels)
                      ELSE call.H)
        /\ call.out = C1_Formula(call.X, call.edge_index, call.H0)

\* a call returned a non-zero state while its update gate was neither all 1/2
\* nor equal to the reset gate
C1_Witness ==
    /\ Completed
    /\ ~AllZero(call.out)
    /\ NoNaN(call.out)
    /\ call.Z # call.R
    /\ \E i \in 1..Rows(call.Z), j \in 1..Cols(call.Z) : call.Z.val[i][j] # 2

\* C2 as claimed: the returned state interpolates between the previous state
\* and the candidate state with the update gate Z as the weight (of either).
C2_InterpolatesWithUpdateGate ==
    Completed =>
        LET NotZ == Map(LAMBDA z : fadd(One, fmul(-One, z)), call.Z)
            ZH   == Elementwise(fmul, call.Z, call.H0, "*")
            NC   == Elementwise(fmul, NotZ, call.H_t, "*")
            NH   == Elementwise(fmul, NotZ, call.H0, "*")
            ZC   == Elementwise(fmul, call.Z, call.H_t, "*")
        IN  \/ call.out = Elementwise(fadd, ZH, NC, "+")
            \/ call.out = Elementwise(fadd, NH, ZC, "+")

\* C3: a call with H omitted runs on the zero matrix of shape
\* (number_of_nodes, out_channels), whatever X is, and ends as the call with
\* that matrix passed explicitly ends: with the same value or the same failure.
C3_OmittedIsExplicitZeros ==
    (Done /\ call.H = None) =>
        /\ call.H0 = zeros(number_of_nodes, out_channels)
        /\ call.out = forward(call.X, call.edge_index,
                              zeros(number_of_nodes, out_channels)).out

\* a call with H omitted returned although X has not number_of_nodes rows
C3_Witness ==
    /\ Completed
    /\ call.H = None
    /\ Rows(call.X) # number_of_nodes
    /\ ~AllZero(call.X)

\* C4 as claimed: every returned state has shape (number_of_nodes,
\* out_channels), which is the shape of the resolved H.
C4_ShapeIsNodesByOut ==
    Completed =>
        /\ Shape(call.out) = <<number_of_nodes, out_channels>>
        /\ Shape(call.out) = Shape(call.H0)

\* C4 as amended: a returned state has out_channels columns and as many rows
\* as the larger of X and the resolved H; it has shape (number_of_nodes,
\* out_channels), the resolved H's, when X has number_of_nodes rows (or one
\* row) and H is omitted or has that shape, whatever in_channels is.
C4_ShapeIsBroadcastOfInputs ==
    Completed =>
        /\ Shape(call.out) = <<Max(Rows(call.X), Rows(call.H0)), out_channels>>
        /\ (/\ Rows(call.X) \in {1, number_of_nodes}
            /\ call.H = None \/ Shape(call.H) = <<number_of_nodes, out_channels>>)
           => /\ Shape(call.out) = <<number_of_nodes, out_channels>>
              /\ Shape(call.out) = Shape(call.H0)

\* the state returned by the call before was fed back, with in_channels
\* different from out_channels, and a state of the cell's shape came back
C4_Witness ==
    /\ Completed
    /\ steps >= 1
    /\ call.H = held
    /\ in_channels # out_channels
    /\ number_of_nodes > 1
    /\ Shape(call.out) = <<number_of_nodes, out_channels>>

\* whether a ChebConv operator of input width w accepts T on edge_index
Accepts(w, T, edge_index) == Cols(T) = w /\ Rows(T) >= NodeRange(edge_index)

\* C5 as claimed: a failing call fails inside one of the six convolution
\* operators, never in the cell's own elementwise steps.
C5_OnlyOperatorsRaise ==
    (Done /\ IsRaise(call.out)) => call.out.by = "ChebConv"

\* a call fails exactly when conv_x_z rejects X, or conv_h_z rejects the
\* resolved H, or both accept and the row counts of X and the resolved H do
\* not broadcast, in which case the cell's own elementwise add of the update
\* gate raises; the failure is the call's outcome as raised and no later step
\* of the call runs
C5_State ==
    Done =>
        /\ IsRaise(call.out) <=>
              \/ ~Accepts(in_channels, call.X, call.edge_index)
              \/ ~Accepts(out_channels, call.H0, call.edge_index)
              \/ ~Broadcastable(Rows(call.X), Rows(call.H0))
        /\ IsRaise(call.out) =>
              /\ call.out = call.Z
              /\ call.R = Unset
              /\ call.H_t = Unset
              /\ call.out =
                    IF ~Accepts(in_channels, call.X, call.edge_index)
                    THEN Raise("ChebConv", "conv_x_z")
                    ELSE IF ~Accepts(out_channels, call.H0, call.edge_index)
                    THEN Raise("ChebConv", "conv_h_z")
                    ELSE Raise("GConvGRU", "Z = Z + conv_h_z(H)")

\* C5, amended: in every state a failed call is one of the three failures of
\* C5_State, raised by a convolution operator or by the cell's own add, and
\* the step after a failed call hands the caller no hidden state: what the
\* caller holds, and how many states it has received, stay as they were.
C5_RaisesReachCaller ==
    /\ []C5_State
    /\ [][(Done /\ IsRaise(call.out)) => (held' = held /\ steps' = steps)]_vars

\* a call failed in the cell's own add: the operators accepted X and H
C5_Witness ==
    /\ Done
    /\ IsRaise(call.out)
    /\ call.out.by = "GConvGRU"
    /\ Accepts(in_channels, call.X, call.edge_index)
    /\ Accepts(out_channels, call.H0, call.edge_index)

OfBiases(act(_), xop, hop, c) == act(fadd(heap[xop].bias[c], heap[hop].bias[c]))

ZeroCall ==
    /\ Completed
    /\ IsTensor(call.X) /\ AllZero(call.X)
    /\ IsTensor(call.H0) /\ AllZero(call.H0)

\* C7 as stated: with X all-zero and H all-zero the candidate state H_t is the
\* all-zero matrix and so is the returned hidden state.
C7_ZeroInputsZeroCandidate ==
    ZeroCall => AllZero(call.H_t) /\ AllZero(call.out)

\* C7, amended: with X all-zero and H all-zero (and finite parameters) every
\* row of Z is sigmoid(b_xz + b_hz), every row of R is sigmoid(b_xr + b_hr),
\* every row of H_t is tanh(b_xh + b_hh), which is zero only where the two
\* candidate biases cancel, and the returned hidden state is all-zero.
C7_ZeroInputsLeaveBiases ==
    ZeroCall =>
        /\ \A i \in 1..Rows(call.Z), c \in 1..out_channels :
              call.Z.val[i][c] = OfBiases(sigmoid, conv_x_z, conv_h_z, c)
        /\ \A i \in 1..Rows(call.R), c \in 1..out_channels :
              call.R.val[i][c] = OfBiases(sigmoid, conv_x_r, conv_h_r, c)
        /\ \A i \in 1..Rows(call.H_t), c \in 1..out_channels :
              call.H_t.val[i][c] = OfBiases(tanh, conv_x_h, conv_h_h, c)
        /\ AllZero(call.out)

\* a call with a supplied all-zero H and an all-zero X on trained operators:
\* the candidate state is not zero, the result is
C7_Witness ==
    /\ ZeroCall
    /\ call.H # None
    /\ ~AllZero(call.H_t)
    /\ AllZero(call.out)

Within(T, lo, hi) ==
    \A i \in 1..Rows(T), j \in 1..Cols(T) :
        IsNaN(T.val[i][j]) \/ (lo <= T.val[i][j] /\ T.val[i][j] <= hi)

StrictlyWithin(T, lo, hi) ==
    \A i \in 1..Rows(T), j \in 1..Cols(T) :
        ~IsNaN(T.val[i][j]) /\ lo < T.val[i][j] /\ T.val[i][j] < hi

\* C8 as stated: in a call that completes every element of Z and of R is
\* strictly between 0 and 1 and every element of H_t strictly between -1 and 1.
C8_GatesInOpenIntervals ==
    Completed =>
        /\ StrictlyWithin(call.Z, 0, One)
        /\ StrictlyWithin(call.R, 0, One)
        /\ StrictlyWithin(call.H_t, -One, One)

\* C8, amended: in a call that completes every element of Z and of R is NaN or
\* lies in the closed interval [0,1], and every element of H_t is NaN or lies
\* in [-1,1]; the bounds are attained where the activation saturates.
C8_GatesInClosedIntervals ==
    Completed =>
        /\ Within(call.Z, 0, One)
        /\ Within(call.R, 0, One)
        /\ Within(call.H_t, -One, One)

\* a completed call in which a gate element is exactly 1, another exactly 0,
\* and a candidate element exactly 1 or -1
C8_Witness ==
    /\ Completed
    /\ NoNaN(call.Z) /\ NoNaN(call.R) /\ NoNaN(call.H_t)
    /\ \E i \in 1..Rows(call.Z), j \in 1..Cols(call.Z) : call.Z.val[i][j] = One
    /\ \E i \in 1..Rows(call.R), j \in 1..Cols(call.R) : call.R.val[i][j] = 0
    /\ \E i \in 1..Rows(call.H_t), j \in 1..Cols(call.H_t) :
          Abs(call.H_t.val[i][j]) = One

Operators == <<conv_x_z, conv_h_z, conv_x_r, conv_h_r, conv_x_h, conv_h_h>>

C9_State ==
    /\ Len(heap) = 6
    /\ \A a \in 1..6 : Operators[a] \in 1..Len(heap)
    /\ \A a, b \in 1..6 : a # b => Operators[a] # Operators[b]
    /\ \A id \in {conv_x_z, conv_x_r, conv_x_h} :
          heap[id].in_channels = in_channels
    /\ \A id \in {conv_h_z, conv_h_r, conv_h_h} :
          heap[id].in_channels = out_channels
    /\ \A a \in 1..6 :
          /\ heap[Operators[a]].out_channels = out_channels
          /\ heap[Operators[a]].K = K

\* C9: the six names refer to six different operators, the x-operators of
\* input width in_channels, the h-operators of input width out_channels, all
\* of output width out_channels and order K, in every state; and a forward
\* call, from its start to its return, changes neither what a name refers to,
\* nor an operator's parameters, nor in_channels, out_channels, K or
\* number_of_nodes.
C9_SixOperatorsKept ==
    /\ []C9_State
    /\ [][(call' # Idle \/ call # Idle) => UNCHANGED <<cell, heap>>]_vars

\* a third call of a sequence on trained operators has returned
C9_Witness ==
    /\ Completed
    /\ steps = 2
    /\ C9_State
    /\ heap # __init__(in_channels, out_channels, K, number_of_nodes,
                       <<One, One, -One, One, One, -One>>).heap

\* element (i,j) of the result against the element of H0 it was computed from
Shrinks(i, j) ==
    /\ Abs(call.out.val[i][j]) <= Abs(At(call.H0, i, j))
    /\ At(call.H0, i, j) = 0 => call.out.val[i][j] = 0

\* C10 as stated: in a completed call no element of the result exceeds in
\* absolute value the element of the previous state, zero stays zero, with H
\* omitted the result is all-zero, and every state of a sequence that began
\* with H omitted is all-zero.
C10_NeverGrowsAlwaysZero ==
    /\ Completed =>
          /\ \A i \in 1..Rows(call.out), j \in 1..Cols(call.out) : Shrinks(i, j)
          /\ call.H = None => AllZero(call.out)
    /\ origin = "omitted" => AllZero(held)

\* C10, amended: in a completed call, wherever the element of the previous
\* state is finite and the element of the candidate state is not NaN, the
\* result's element is no larger in absolute value and zero stays zero; with H
\* omitted the result is zero wherever the candidate state is not NaN and NaN
\* elsewhere; every element of every state of a sequence that began with H
\* omitted is zero or NaN.
C10_NeverGrowsUnlessNaN ==
    /\ Completed =>
          /\ \A i \in 1..Rows(call.out), j \in 1..Cols(call.out) :
                (IsFinite(At(call.H0, i, j)) /\ ~IsNaN(At(call.H_t, i, j)))
                => Shrinks(i, j)
          /\ call.H = None =>
                \A i \in 1..Rows(call.out), j \in 1..Cols(call.out) :
                    call.out.val[i][j] =
                        (IF IsNaN(At(call.H_t, i, j)) THEN NaN ELSE 0)
    /\ origin = "omitted" =>
          \A i \in 1..Rows(held), j \in 1..Cols(held) :
              held.val[i][j] \in {0, NaN}

\* the second call of a sequence that began with a supplied state returned a
\* state with an element that shrank but did not vanish
C10_Witness ==
    /\ Completed
    /\ origin = "supplied"
    /\ steps = 1
    /\ NoNaN(call.H_t)
    /\ \E i \in 1..Rows(call.out), j \in 1..Cols(call.out) :
          /\ 0 < Abs(call.out.val[i][j])
          /\ Abs(call.out.val[i][j]) < Abs(At(call.H0, i, j))

=============================================================================
